---- MODULE Spec2Model ----
(***************************************************************************)
(* Model of app/renderer.py: measure_text (greedy word wrap) and           *)
(* render_table_image (layout pass, canvas creation, paint pass).          *)
(*                                                                         *)
(* A string is a sequence of one-character strings.  An Optional[str] is   *)
(* None (the empty tuple) or Some(s) (the one-element tuple holding s).    *)
(* Every PIL call that measures or paints is recorded, in program order,   *)
(* in the log "events".                                                    *)
(***************************************************************************)
EXTENDS Integers, Sequences, FiniteSets, TLC

\* ------------------------------------------------------------------ bounds
MaxCols   == 2    \* longest list of column labels drawn
MaxRows   == 2    \* most rows of a table drawn in the initial state
MaxRowLen == 2    \* longest row drawn
MaxStrLen == 5    \* longest string handed to measure_text on its own

\* --------------------------------------------------------------- constants
CELL_PADDING   == 8
LINE_WIDTH     == 1
ROW_HEIGHT_MIN == 28
Y_START        == 10
TITLE_GAP      == 12
BOTTOM_MARGIN  == 20
API_MAX_WIDTH  == 1200
HEADER_EXTRA   == 2
TITLE_X        == 10

VARIABLES
    truetype_ok,     \* did ImageFont.truetype load (else the load_default fallback)
    columns, rows, title, max_width,               \* arguments of render_table_image
    n_cols, col_width, header_heights, header_height,
    row_heights, title_height, total_height,       \* locals of the layout pass
    img,             \* None, or Some([width, height]) once Image.new has run
    x, y, bbox,      \* paint cursor; bbox is the local bound at line 104
    idx,             \* position of the running for loop (1-based)
    pc,              \* position in render_table_image
    exc,             \* the exception that ended the render, "" if none
    events,          \* log of measuring and painting calls
    prev,            \* None, or Some(canvas height of the previous render)
    m_text, m_font, m_width, m_result,             \* one direct call of measure_text
    endpoint,        \* the HTTP endpoint serving the request, "" outside a request
    status           \* the HTTP status answered, 0 while there is none

vars == << truetype_ok, columns, rows, title, max_width, n_cols, col_width,
           header_heights, header_height, row_heights, title_height,
           total_height, img, x, y, bbox, idx, pc, exc, events, prev,
           m_text, m_font, m_width, m_result, endpoint, status >>

api == << endpoint, status >>

\* ------------------------------------------------------- values and strings
None == << >>
Some(v) == << v >>
IsNone(o) == Len(o) = 0
Val(o) == o[1]

EmptyStr == << >>
SPACE == " "
Str_a_a == << "a", " ", "a" >>
Str_None == << "N", "o", "n", "e" >>

\* sequences over S of length 0..n
SeqsUpTo(S, n) == UNION { [1..k -> S] : k \in 0..n }

\* sum and maximum of a sequence of integers (max of the empty one is undefined)
RECURSIVE SumSeq(_)
SumSeq(s) == IF s = << >> THEN 0 ELSE Head(s) + SumSeq(Tail(s))

Max2(a, b) == IF a >= b THEN a ELSE b

RECURSIVE MaxSeq(_)
MaxSeq(s) == IF Len(s) = 1 THEN s[1] ELSE Max2(Head(s), MaxSeq(Tail(s)))

\* ------------------------------------------------------------------- fonts
FONT_BODY     == "DejaVuSans-14"
FONT_BOLD     == "DejaVuSans-Bold-16"
FONT_FALLBACK == "load_default"

DEFAULT_FONT == IF truetype_ok THEN FONT_BODY ELSE FONT_FALLBACK
HEADER_FONT  == IF truetype_ok THEN FONT_BOLD ELSE FONT_FALLBACK

\* advance width of one character in a font
CharWidth(font, c) ==
    CASE font = FONT_BODY -> (IF c = SPACE THEN 4 ELSE 8)
      [] font = FONT_BOLD -> (IF c = SPACE THEN 5 ELSE 10)
      [] OTHER            -> 6

\* font.getbbox(s): bbox[2] - bbox[0]
RECURSIVE text_width(_, _)
text_width(s, font) ==
    IF s = << >> THEN 0 ELSE CharWidth(font, Head(s)) + text_width(Tail(s), font)

\* font.getbbox("Ag"): bbox[3] - bbox[1]
LineHeight(font) ==
    CASE font = FONT_BODY -> 14
      [] font = FONT_BOLD -> 16
      [] OTHER            -> 11

\* ------------------------------------------------------------ str methods
\* s.strip()
RECURSIVE LStrip(_)
LStrip(s) == IF s # << >> /\ Head(s) = SPACE THEN LStrip(Tail(s)) ELSE s

RECURSIVE RStrip(_)
RStrip(s) ==
    IF s # << >> /\ s[Len(s)] = SPACE THEN RStrip(SubSeq(s, 1, Len(s) - 1)) ELSE s

Strip(s) == RStrip(LStrip(s))

\* s.split(): the maximal runs of non-whitespace characters, in order
RECURSIVE SplitFrom(_, _, _)
SplitFrom(s, cur, acc) ==
    IF s = << >>
    THEN (IF cur = << >> THEN acc ELSE Append(acc, cur))
    ELSE IF Head(s) = SPACE
         THEN SplitFrom(Tail(s), << >>, IF cur = << >> THEN acc ELSE Append(acc, cur))
         ELSE SplitFrom(Tail(s), Append(cur, Head(s)), acc)

Split(s) == SplitFrom(s, << >>, << >>)

\* ------------------------------------------------------------ measure_text
RECURSIVE WrapLoop_NoPadding(_, _, _, _, _, _)
WrapLoop_NoPadding(words, i, line, lines, font, width) ==
    IF i > Len(words)
    THEN [line |-> line, lines |-> lines]
    ELSE LET w    == words[i]
             test == Strip(line \o << SPACE >> \o w)
         IN  IF text_width(test, font) > width /\ line # << >>
             THEN WrapLoop_NoPadding(words, i + 1, w, Append(lines, line), font, width)
             ELSE WrapLoop_NoPadding(words, i + 1, test, lines, font, width)

\* the for loop of lines 35-42, from word i on
RECURSIVE WrapLoop(_, _, _, _, _, _)
WrapLoop(words, i, line, lines, font, width) ==
    IF i > Len(words)
    THEN [line |-> line, lines |-> lines]
    ELSE LET w    == words[i]
             test == Strip(line \o << SPACE >> \o w)
         IN  IF text_width(test, font) + 2 * CELL_PADDING > width /\ line # << >>
             THEN WrapLoop(words, i + 1, w, Append(lines, line), font, width)
             ELSE WrapLoop(words, i + 1, test, lines, font, width)

\* height returned when the text has no words (lines 21-23)
EmptyTextHeight(font) == LineHeight(font)

\* height returned for wrapped lines (line 46)
BlockHeight(lines, font) == Len(lines) * LineHeight(font) + 2 * CELL_PADDING

measure_text(text, font, width) ==
    LET words == Split(text)
    IN  IF words = << >>
        THEN [lines |-> << EmptyStr >>, height |-> EmptyTextHeight(font)]
        ELSE LET r     == WrapLoop(words, 1, << >>, << >>, font, width)
                 lines == IF r.line # << >> THEN Append(r.lines, r.line) ELSE r.lines
             IN  [lines |-> lines, height |-> BlockHeight(lines, font)]


\* ------------------------------------------------------------ input values
Alphabet == { "a", "b", SPACE }
Strings == SeqsUpTo(Alphabet, MaxStrLen)
Fonts == { FONT_BODY, FONT_BOLD, FONT_FALLBACK }
WrapWidths == { 20, 40, 1200 }

Widths == { 40, 1200 }
Labels == { EmptyStr, Str_a_a }
\* n column labels, all "" but the last, which is l
ColsOf(n, l) == [i \in 1..n |-> IF i = n THEN l ELSE EmptyStr]
ColumnLists == { ColsOf(n, l) : n \in 0..MaxCols, l \in Labels }
CellValues == { None, Some(Str_a_a) }
\* a row of n cells, all None but the last, which is v
RowOf(n, v) == [i \in 1..n |-> IF i = n THEN v ELSE None]
RowValues == { RowOf(n, v) : n \in 0..MaxRowLen, v \in CellValues }
RowLists == SeqsUpTo(RowValues, MaxRows)
Titles == { None, Some(Str_a_a) }

\* ------------------------------------------------------------ event log
Ev(kind, what, text, font, x0, y0, x1, y1, row, col) ==
    [kind |-> kind, what |-> what, text |-> text, font |-> font,
     x0 |-> x0, y0 |-> y0, x1 |-> x1, y1 |-> y1, row |-> row, col |-> col]

\* a call measure_text(text, font, width) made for `what` at (row, col)
EvMeasure(what, text, font, width, row, col) ==
    Ev("measure", what, text, font, 0, 0, width, 0, row, col)

\* a call font.getbbox("Ag") made by the paint pass itself
EvBBox(what, font, row, col) ==
    Ev("getbbox", what, << "A", "g" >>, font, 0, 0, 0, 0, row, col)

\* draw.text((x0, y0), text, font)
EvText(what, text, font, x0, y0, row, col) ==
    Ev("text", what, text, font, x0, y0, x0, y0, row, col)

\* draw.line([x0, y0, x1, y1])
EvLine(what, x0, y0, x1, y1, row, col) ==
    Ev("line", what, EmptyStr, "", x0, y0, x1, y1, row, col)

\* Image.new(...) and draw.rectangle(..., fill): the two fills
EvFill(what, x0, y0, x1, y1) ==
    Ev("fill", what, EmptyStr, "", x0, y0, x1, y1, 0, 0)

\* ------------------------------------------------------------ layout pass
\* Python truthiness of an Optional[str]
Truthy(o) == ~IsNone(o) /\ Val(o) # EmptyStr

\* col or ""
OrEmpty(col) == IF col = EmptyStr THEN EmptyStr ELSE col

\* str(cell)
PyStr(cell) == IF IsNone(cell) THEN Str_None ELSE Val(cell)

CellText_NoNoneCheck(cell) == PyStr(cell)

\* "" if cell is None else str(cell)   (lines 71 and 121)
CellText(cell) == IF IsNone(cell) THEN EmptyStr ELSE PyStr(cell)

\* line 56
NumCols(cols) == Max2(1, Len(cols))

\* line 58
ColWidth(mw, n) == mw \div n

\* lines 60-63
HeaderHeights(cols, cw) ==
    [i \in 1..Len(cols) |-> measure_text(OrEmpty(cols[i]), HEADER_FONT, cw).height]

HeaderMeasureEvents(cols, cw) ==
    [i \in 1..Len(cols) |-> EvMeasure("header", OrEmpty(cols[i]), HEADER_FONT, cw, 0, i)]

\* lines 69-73: one entry per cell the row holds
CellHeights(r, cw) ==
    [i \in 1..Len(r) |->
        Max2(measure_text(CellText(r[i]), DEFAULT_FONT, cw).height, ROW_HEIGHT_MIN)]

RowMeasureEvents(r, ri, cw) ==
    [i \in 1..Len(r) |-> EvMeasure("cell", CellText(r[i]), DEFAULT_FONT, cw, ri, i)]

\* lines 77-80
TitleHeight(t, mw) ==
    IF Truthy(t) THEN measure_text(Val(t), HEADER_FONT, mw).height + TITLE_GAP ELSE 0

TotalHeight_NoMargin(th, hh, rhs, nrows) ==
    th + hh + SumSeq(rhs) + (nrows + 2) * LINE_WIDTH

TotalHeight_OneLineShort(th, hh, rhs, nrows) ==
    th + hh + SumSeq(rhs) + (nrows + 1) * LINE_WIDTH + BOTTOM_MARGIN

\* line 82
TotalHeight(th, hh, rhs, nrows) ==
    th + hh + SumSeq(rhs) + (nrows + 2) * LINE_WIDTH + BOTTOM_MARGIN

\* line 84: the size handed to Image.new
CanvasSize(mw, tot) == [width |-> mw, height |-> tot]

ERR_LINE_64 == "ValueError: max() arg is an empty sequence (line 64)"
ERR_LINE_74 == "ValueError: max() arg is an empty sequence (line 74)"
ERR_LINE_129 == "NameError: name 'bbox' is not defined (line 129)"

Raise(e) ==
    /\ pc' = "raised"
    /\ exc' = e

\* lines 56-64
MeasureHeaders ==
    /\ pc = "measure_headers"
    /\ n_cols' = NumCols(columns)
    /\ col_width' = ColWidth(max_width, n_cols')
    /\ header_heights' = HeaderHeights(columns, col_width')
    /\ events' = events \o HeaderMeasureEvents(columns, col_width')
    /\ IF header_heights' = << >>
       THEN /\ Raise(ERR_LINE_64)
            /\ UNCHANGED << header_height, idx >>
       ELSE /\ header_height' = MaxSeq(header_heights') + HEADER_EXTRA
            /\ pc' = IF rows = << >> THEN "measure_title" ELSE "measure_rows"
            /\ idx' = 1
            /\ exc' = exc
    /\ UNCHANGED api
    /\ UNCHANGED << truetype_ok, columns, rows, title, max_width, row_heights,
                    title_height, total_height, img, x, y, bbox, prev,
                    m_text, m_font, m_width, m_result >>

\* lines 68-74, one iteration of the outer loop
MeasureRow ==
    /\ pc = "measure_rows"
    /\ idx <= Len(rows)
    /\ LET r  == rows[idx]
           ch == CellHeights(r, col_width)
       IN  /\ events' = events \o RowMeasureEvents(r, idx, col_width)
           /\ IF ch = << >>
              THEN /\ Raise(ERR_LINE_74)
                   /\ UNCHANGED << row_heights, idx >>
              ELSE /\ row_heights' = Append(row_heights, MaxSeq(ch))
                   /\ idx' = idx + 1
                   /\ pc' = IF idx = Len(rows) THEN "measure_title" ELSE "measure_rows"
                   /\ exc' = exc
    /\ UNCHANGED api
    /\ UNCHANGED << truetype_ok, columns, rows, title, max_width, n_cols, col_width,
                    header_heights, header_height, title_height, total_height,
                    img, x, y, bbox, prev, m_text, m_font, m_width, m_result >>

\* lines 77-82
MeasureTitle ==
    /\ pc = "measure_title"
    /\ title_height' = TitleHeight(title, max_width)
    /\ total_height' = TotalHeight(title_height', header_height, row_heights, Len(rows))
    /\ events' = IF Truthy(title)
                 THEN Append(events, EvMeasure("title", Val(title), HEADER_FONT, max_width, 0, 0))
                 ELSE events
    /\ pc' = "create_canvas"
    /\ UNCHANGED api
    /\ UNCHANGED << truetype_ok, columns, rows, title, max_width, n_cols, col_width,
                    header_heights, header_height, row_heights, img, x, y, bbox,
                    idx, exc, prev, m_text, m_font, m_width, m_result >>

\* lines 84-87
CreateCanvas ==
    /\ pc = "create_canvas"
    /\ img' = Some(CanvasSize(max_width, total_height))
    /\ events' = Append(events, EvFill("background", 0, 0, max_width, total_height))
    /\ y' = Y_START
    /\ pc' = "paint_title"
    /\ UNCHANGED api
    /\ UNCHANGED << truetype_ok, columns, rows, title, max_width, n_cols, col_width,
                    header_heights, header_height, row_heights, title_height,
                    total_height, x, bbox, idx, exc, prev,
                    m_text, m_font, m_width, m_result >>

\* ------------------------------------------------------------- paint pass
\* lines 102-105 and 126-129: one draw.text and one getbbox("Ag") per wrapped
\* line, the k-th line drawn `step` below the one before it
LineEvents(what, lines, font, left, top, step, row, col) ==
    [j \in 1..(2 * Len(lines)) |->
        IF j % 2 = 1
        THEN EvText(what, lines[(j + 1) \div 2], font, left,
                    top + ((j - 1) \div 2) * step, row, col)
        ELSE EvBBox(what, font, row, col)]

\* line 89: the title is drawn in one draw.text call
TitleEvents(t, ty) ==
    IF Truthy(t) THEN << EvText("title", Val(t), HEADER_FONT, TITLE_X, ty, 0, 0) >>
    ELSE << >>

HeaderCellEvents_GridFirst(col, i, cx, hy, cw, tot) ==
    LET lines == measure_text(OrEmpty(col), HEADER_FONT, cw).lines
    IN  << EvMeasure("header", OrEmpty(col), HEADER_FONT, cw, 0, i) >>
        \o << EvLine("vgrid", cx + cw, hy, cx + cw, tot, 0, i) >>
        \o LineEvents("header", lines, HEADER_FONT, cx + CELL_PADDING,
                      hy + CELL_PADDING, LineHeight(HEADER_FONT), 0, i)

\* lines 97-109, column i whose left edge is cx, header band top hy
HeaderCellEvents(col, i, cx, hy, cw, tot) ==
    LET lines == measure_text(OrEmpty(col), HEADER_FONT, cw).lines
    IN  << EvMeasure("header", OrEmpty(col), HEADER_FONT, cw, 0, i) >>
        \o LineEvents("header", lines, HEADER_FONT, cx + CELL_PADDING,
                      hy + CELL_PADDING, LineHeight(HEADER_FONT), 0, i)
        \o << EvLine("vgrid", cx + cw, hy, cx + cw, tot, 0, i) >>

\* lines 119-121: the text of column c (1-based) of a row
PaintCellText(row, c) == IF c <= Len(row) THEN CellText(row[c]) ELSE EmptyStr

BodyCellEvents_InnerWidth(row, ri, c, ry, row_h, cw, step) ==
    LET cell_text == PaintCellText(row, c)
        cx        == (c - 1) * cw
        inner     == cw - 2 * CELL_PADDING
        lines     == measure_text(cell_text, DEFAULT_FONT, inner).lines
    IN  << EvMeasure("cell", cell_text, DEFAULT_FONT, inner, ri, c) >>
        \o LineEvents("cell", lines, DEFAULT_FONT, cx + CELL_PADDING,
                      ry + CELL_PADDING, step, ri, c)
        \o << EvLine("vline", cx + cw, ry, cx + cw, ry + row_h, ri, c) >>

\* lines 119-133, cell c of row ri: left edge (c - 1) * cw, row top ry;
\* the lines are stacked by the bbox bound in the header loop (line 129)
BodyCellEvents(row, ri, c, ry, row_h, cw, step) ==
    LET cell_text == PaintCellText(row, c)
        cx        == (c - 1) * cw
        lines     == measure_text(cell_text, DEFAULT_FONT, cw).lines
    IN  << EvMeasure("cell", cell_text, DEFAULT_FONT, cw, ri, c) >>
        \o LineEvents("cell", lines, DEFAULT_FONT, cx + CELL_PADDING,
                      ry + CELL_PADDING, step, ri, c)
        \o << EvLine("vline", cx + cw, ry, cx + cw, ry + row_h, ri, c) >>

\* lines 118-133 for cells c..n of row ri
RECURSIVE BodyRowEvents(_, _, _, _, _, _, _, _)
BodyRowEvents(row, ri, c, n, ry, row_h, cw, step) ==
    IF c > n THEN << >>
    ELSE BodyCellEvents(row, ri, c, ry, row_h, cw, step)
         \o BodyRowEvents(row, ri, c + 1, n, ry, row_h, cw, step)

\* lines 87-90
PaintTitle ==
    /\ pc = "paint_title"
    /\ events' = events \o TitleEvents(title, y)
    /\ y' = IF Truthy(title) THEN y + title_height ELSE y
    /\ pc' = "paint_header_band"
    /\ UNCHANGED api
    /\ UNCHANGED << truetype_ok, columns, rows, title, max_width, n_cols, col_width,
                    header_heights, header_height, row_heights, title_height,
                    total_height, img, x, bbox, idx, exc, prev,
                    m_text, m_font, m_width, m_result >>

\* lines 92-95
PaintHeaderBand ==
    /\ pc = "paint_header_band"
    /\ events' = Append(events, EvFill("header_band", 0, y, max_width, y + header_height))
    /\ x' = 0
    /\ idx' = 1
    /\ pc' = IF columns = << >> THEN "paint_separator" ELSE "paint_header_cells"
    /\ UNCHANGED api
    /\ UNCHANGED << truetype_ok, columns, rows, title, max_width, n_cols, col_width,
                    header_heights, header_height, row_heights, title_height,
                    total_height, img, y, bbox, exc, prev,
                    m_text, m_font, m_width, m_result >>

\* lines 96-109, one iteration
PaintHeaderCell ==
    /\ pc = "paint_header_cells"
    /\ idx <= Len(columns)
    /\ events' = events \o HeaderCellEvents(columns[idx], idx, x, y, col_width, total_height)
    /\ bbox' = Some(LineHeight(HEADER_FONT))
    /\ x' = x + col_width
    /\ idx' = idx + 1
    /\ pc' = IF idx = Len(columns) THEN "paint_separator" ELSE "paint_header_cells"
    /\ UNCHANGED api
    /\ UNCHANGED << truetype_ok, columns, rows, title, max_width, n_cols, col_width,
                    header_heights, header_height, row_heights, title_height,
                    total_height, img, y, exc, prev,
                    m_text, m_font, m_width, m_result >>

\* lines 110-112, and the return of line 138 for a table without rows
PaintSeparator ==
    /\ pc = "paint_separator"
    /\ y' = y + header_height
    /\ events' = Append(events, EvLine("separator", 0, y', max_width, y', 0, 0))
    /\ idx' = 1
    /\ pc' = IF rows = << >> THEN "done" ELSE "paint_rows"
    /\ UNCHANGED api
    /\ UNCHANGED << truetype_ok, columns, rows, title, max_width, n_cols, col_width,
                    header_heights, header_height, row_heights, title_height,
                    total_height, img, x, bbox, exc, prev,
                    m_text, m_font, m_width, m_result >>

\* lines 115-136, one iteration of the outer loop, and the return of line 138
\* after the last one
PaintRow ==
    /\ pc = "paint_rows"
    /\ idx <= Len(rows)
    /\ LET row   == rows[idx]
           row_h == row_heights[idx]
       IN  IF IsNone(bbox)
           THEN /\ Raise(ERR_LINE_129)
                /\ UNCHANGED << events, x, y, idx >>
           ELSE /\ events' = events
                      \o BodyRowEvents(row, idx, 1, n_cols, y, row_h, col_width, Val(bbox))
                      \o << EvLine("row_line", 0, y + row_h, max_width, y + row_h, idx, 0) >>
                /\ x' = n_cols * col_width
                /\ y' = y + row_h
                /\ idx' = idx + 1
                /\ pc' = IF idx = Len(rows) THEN "done" ELSE "paint_rows"
                /\ exc' = exc
    /\ UNCHANGED api
    /\ UNCHANGED << truetype_ok, columns, rows, title, max_width, n_cols, col_width,
                    header_heights, header_height, row_heights, title_height,
                    total_height, img, bbox, prev, m_text, m_font, m_width, m_result >>

\* a caller renders the same table with one more row (same columns, title,
\* fonts and max_width), keeping the height of the canvas it got before
RenderWithAddedRow ==
    /\ pc = "done"
    /\ IsNone(prev)
    /\ Len(rows) < MaxRows
    /\ \E r \in RowValues : rows' = Append(rows, r)
    /\ prev' = Some(Val(img).height)
    /\ n_cols' = 0 /\ col_width' = 0 /\ header_heights' = << >> /\ header_height' = 0
    /\ row_heights' = << >> /\ title_height' = 0 /\ total_height' = 0
    /\ img' = None /\ x' = 0 /\ y' = 0 /\ bbox' = None /\ idx' = 0
    /\ pc' = "measure_headers" /\ exc' = "" /\ events' = << >>
    /\ UNCHANGED api
    /\ UNCHANGED << truetype_ok, columns, title, max_width,
                    m_text, m_font, m_width, m_result >>

\* ------------------------------------------------- a direct measure_text call
MeasureText ==
    /\ IsNone(m_result)
    /\ m_result' = Some(measure_text(m_text, m_font, m_width))
    /\ UNCHANGED api
    /\ UNCHANGED << truetype_ok, columns, rows, title, max_width, n_cols, col_width,
                    header_heights, header_height, row_heights, title_height,
                    total_height, img, x, y, bbox, idx, pc, exc, events, prev,
                    m_text, m_font, m_width >>

\* ------------------------------------------------------------ specifications
Locals0 ==
    /\ n_cols = 0 /\ col_width = 0 /\ header_heights = << >> /\ header_height = 0
    /\ row_heights = << >> /\ title_height = 0 /\ total_height = 0
    /\ img = None /\ x = 0 /\ y = 0 /\ bbox = None /\ idx = 0
    /\ exc = "" /\ events = << >> /\ prev = None
    /\ endpoint = "" /\ status = 0

Init ==
    /\ truetype_ok \in BOOLEAN
    /\ columns \in ColumnLists
    /\ rows \in RowLists
    /\ title \in Titles
    /\ max_width \in Widths
    /\ Locals0
    /\ pc = "measure_headers"
    /\ m_text = EmptyStr /\ m_font = "" /\ m_width = 0 /\ m_result = Some(0)

Next ==
    \/ MeasureHeaders
    \/ MeasureRow
    \/ MeasureTitle
    \/ CreateCanvas
    \/ PaintTitle
    \/ PaintHeaderBand
    \/ PaintHeaderCell
    \/ PaintSeparator
    \/ PaintRow

Spec == Init /\ [][Next]_vars

\* the renders of Spec, and a caller that renders again with one more row
MonoNext ==
    \/ Next
    \/ RenderWithAddedRow

MonoSpec == Init /\ [][MonoNext]_vars

WrapInit ==
    /\ truetype_ok = TRUE
    /\ columns = << >> /\ rows = << >> /\ title = None /\ max_width = 0
    /\ Locals0
    /\ pc = "idle"
    /\ m_text \in Strings
    /\ m_font \in Fonts
    /\ m_width \in WrapWidths
    /\ m_result = None

WrapNext == MeasureText

WrapSpec == WrapInit /\ [][WrapNext]_vars


\* ---------------------------------------------------- HTTP endpoints (main.py)
\* the request bodies that validate as TableJSON
TableJSONs == [columns : ColumnLists, rows : RowLists, title : Titles]

\* main.py lines 38-44: a row padded with None or truncated to n cells
PadOrTruncate(row, n) ==
    IF Len(row) # n
    THEN IF Len(row) < n
         THEN row \o [i \in 1..(n - Len(row)) |-> None]
         ELSE SubSeq(row, 1, n)
    ELSE row

\* main.py lines 36-46: the loop over table.rows
NormalizeRows(rs, n) == [i \in 1..Len(rs) |-> PadOrTruncate(rs[i], n)]

\* the call render_table_image(columns, rows, title=..., max_width=1200)
CallRender(cols, rs, t) ==
    /\ columns' = cols
    /\ rows' = rs
    /\ title' = t
    /\ max_width' = API_MAX_WIDTH
    /\ pc' = "measure_headers"

Reject(code) ==
    /\ status' = code
    /\ pc' = "rejected"
    /\ UNCHANGED << columns, rows, title, max_width >>

\* POST /render, main.py lines 48-56: the validated body goes to the renderer
\* as it is, unless it has no columns
RenderEndpoint ==
    /\ pc = "idle"
    /\ endpoint' = "/render"
    /\ \E payload \in TableJSONs :
          IF payload.columns = << >>
          THEN Reject(400)
          ELSE /\ CallRender(payload.columns, payload.rows, payload.title)
               /\ status' = status
    /\ UNCHANGED << truetype_ok, n_cols, col_width, header_heights, header_height,
                    row_heights, title_height, total_height, img, x, y, bbox, idx,
                    exc, events, prev, m_text, m_font, m_width, m_result >>

\* POST /parse_and_render, main.py lines 62-70, through parse_endpoint (lines
\* 19-46): no text, a reply that is no JSON, a JSON that is no TableJSON, or a
\* table whose rows are padded or truncated to len(columns) and then rendered
ParseAndRenderEndpoint ==
    /\ pc = "idle"
    /\ endpoint' = "/parse_and_render"
    /\ \/ Reject(400)
       \/ Reject(502)
       \/ Reject(422)
       \/ \E table \in TableJSONs :
             /\ CallRender(table.columns,
                           NormalizeRows(table.rows, Len(table.columns)), table.title)
             /\ status' = status
    /\ UNCHANGED << truetype_ok, n_cols, col_width, header_heights, header_height,
                    row_heights, title_height, total_height, img, x, y, bbox, idx,
                    exc, events, prev, m_text, m_font, m_width, m_result >>

\* main.py lines 57-60 and 71-74: the PNG is streamed with 200; an exception
\* leaving render_table_image is answered 500 by the framework
Respond ==
    /\ endpoint # ""
    /\ status = 0
    /\ pc \in { "done", "raised" }
    /\ status' = IF pc = "done" THEN 200 ELSE 500
    /\ UNCHANGED << truetype_ok, columns, rows, title, max_width, n_cols, col_width,
                    header_heights, header_height, row_heights, title_height,
                    total_height, img, x, y, bbox, idx, pc, exc, events, prev,
                    m_text, m_font, m_width, m_result, endpoint >>

ApiInit ==
    /\ truetype_ok \in BOOLEAN
    /\ columns = << >> /\ rows = << >> /\ title = None /\ max_width = 0
    /\ Locals0
    /\ pc = "idle"
    /\ m_text = EmptyStr /\ m_font = "" /\ m_width = 0 /\ m_result = Some(0)

ApiNext ==
    \/ RenderEndpoint
    \/ ParseAndRenderEndpoint
    \/ Respond
    \/ Next

ApiSpec == ApiInit /\ [][ApiNext]_vars

\* ================================================================== claims
EventIdx == 1..Len(events)
IsPaint(e) == e.kind \in { "fill", "text", "line" }
IsMeasuring(e) == e.kind \in { "measure", "getbbox" }
LayoutDone == pc \notin { "measure_headers", "measure_rows" }

\* C1: render_table_image called with columns = [] does not raise, whatever the
\* rows, title and max_width: num_columns is clamped to 1 and the render goes on.
C1_ZeroColumnsDoNotRaise ==
    columns = << >> =>
        /\ pc # "raised"
        /\ (pc # "measure_headers" => n_cols = 1)

\* C2: no render raises because of a row's length (shorter than, equal to or
\* longer than len(columns), or 0); missing cells are painted blank, and no cell
\* at an index >= num_columns is painted.
C2_RowLengthNeverRaises ==
    /\ exc # ERR_LINE_74
    /\ \A k \in EventIdx :
          (events[k].kind = "text" /\ events[k].what = "cell") =>
              /\ events[k].col <= n_cols
              /\ (events[k].col > Len(rows[events[k].row]) => events[k].text = EmptyStr)

\* C3: for every string, font and max_width, measure_text returns a non-empty
\* list of lines and the height len(lines) * line_height(font) + 2 * CELL_PADDING.
C3_MeasureTextHeight ==
    ~IsNone(m_result) =>
        /\ Len(Val(m_result).lines) >= 1
        /\ Val(m_result).height =
              Len(Val(m_result).lines) * LineHeight(m_font) + 2 * CELL_PADDING

\* C4: for every table with columns the layout computes exactly one row height
\* per row, in row order, each >= ROW_HEIGHT_MIN: once the layout pass is over
\* there are len(rows) of them.
C4_OneRowHeightPerRow ==
    /\ \A i \in 1..Len(row_heights) : row_heights[i] >= ROW_HEIGHT_MIN
    /\ (columns # << >> /\ LayoutDone) => Len(row_heights) = Len(rows)

\* C5: the image returned has width max_width and height title_height +
\* header_height + sum(row_heights) + (len(rows) + 2) * LINE_WIDTH + 20.
C5_CanvasDimensions ==
    pc = "done" =>
        /\ ~IsNone(img)
        /\ Val(img).width = max_width
        /\ Val(img).height = title_height + header_height + SumSeq(row_heights)
                                + (Len(rows) + 2) * LINE_WIDTH + 20

C5_Witness ==
    /\ pc = "done"
    /\ Len(rows) = 2
    /\ Truthy(title)
    /\ row_heights[1] # row_heights[2]

\* C6: the text measured and painted for a cell at a column index below
\* num_columns is the empty string when the row's value there is None or the
\* row is too short to have one; it is never the word "None".
C6_MissingCellsAreEmpty ==
    \A k \in EventIdx :
        LET e == events[k]
        IN  (/\ e.what = "cell"
             /\ e.kind \in { "measure", "text" }
             /\ e.col <= n_cols
             /\ (e.col > Len(rows[e.row]) \/ IsNone(rows[e.row][e.col])))
            => e.text = EmptyStr

C6_Witness ==
    /\ pc = "done"
    /\ \E k \in EventIdx :
          /\ events[k].kind = "text" /\ events[k].what = "cell"
          /\ events[k].col > Len(rows[events[k].row])
    /\ \E k \in EventIdx :
          /\ events[k].kind = "measure" /\ events[k].what = "cell"
          /\ events[k].col <= Len(rows[events[k].row])
          /\ IsNone(rows[events[k].row][events[k].col])
    /\ \E k \in EventIdx :
          /\ events[k].kind = "text" /\ events[k].what = "cell"
          /\ events[k].text # EmptyStr

\* C7: with columns, title, fonts and max_width fixed, rendering rows + [r]
\* yields a canvas height not smaller than the one rendering rows yielded.
C7_AddedRowNeverLowersCanvas ==
    (~IsNone(prev) /\ pc \in { "done", "raised" }) =>
        /\ pc = "done"
        /\ Val(img).height >= Val(prev)

\* C8: a row's height is max(ROW_HEIGHT_MIN, max over the column indices below
\* num_columns of the wrapped height of the cell there, a missing cell counted
\* as ""), so cells beyond the last column never change it.
C8_RowHeightFromColumnCells ==
    \A i \in 1..Len(row_heights) :
        row_heights[i] =
            Max2(ROW_HEIGHT_MIN,
                 MaxSeq([c \in 1..n_cols |->
                    measure_text(PaintCellText(rows[i], c), DEFAULT_FONT, col_width).height]))

\* position in the log of the Image.new call, 0 before it
CanvasIdx ==
    IF \E k \in EventIdx : events[k].what = "background"
    THEN CHOOSE k \in EventIdx : events[k].what = "background"
    ELSE 0

RECURSIVE PaintsOf(_)
PaintsOf(evs) ==
    IF evs = << >> THEN << >>
    ELSE IF IsPaint(Head(evs)) THEN << Head(evs) >> \o PaintsOf(Tail(evs))
         ELSE PaintsOf(Tail(evs))

IsVertical(e) == e.kind = "line" /\ e.what \in { "vgrid", "vline" }

\* the step of the claimed z-order a paint call belongs to
ClaimedStep(e) ==
    CASE e.kind = "fill"       -> 1
      [] e.what = "title"      -> 2
      [] e.what = "header"     -> 3
      [] e.what = "separator"  -> 4
      [] e.what \in { "cell", "row_line" } -> 5
      [] OTHER                 -> 6

\* C10 (as claimed): paint calls come in the order fills, title text, all header
\* text, separator, body rows, vertical grid lines; every vertical grid line
\* comes after the last body row and spans the full canvas height.
C10_ClaimedZOrder ==
    LET p == PaintsOf(events)
    IN  /\ \A i, j \in 1..Len(p) : i < j => ClaimedStep(p[i]) <= ClaimedStep(p[j])
        /\ \A i \in 1..Len(p) :
              IsVertical(p[i]) => (p[i].y0 = 0 /\ p[i].y1 = total_height)

\* the place of a paint call in the order the code paints in: step, then row,
\* then column (a row's bottom line after its cells), then text before line
PaintKey(e) ==
    LET step == CASE e.what = "background"  -> 1
                  [] e.what = "title"       -> 2
                  [] e.what = "header_band" -> 3
                  [] e.what \in { "header", "vgrid" } -> 4
                  [] e.what = "separator"   -> 5
                  [] OTHER                  -> 6
        colk == IF e.what = "row_line" THEN 9 ELSE e.col
        sub  == IF e.kind = "line" THEN 1 ELSE 0
    IN  step * 1000 + e.row * 100 + colk * 10 + sub

\* C10 (amended): paint calls come in the order background fill, title text,
\* header-band fill, then column by column the header cell's text and that
\* column's vertical grid line, then the separator, then the body rows top to
\* bottom, each row painting per column the cell text and a vertical segment of
\* the row's height, then its bottom line.  Every line is painted after both
\* fills; a header-pass grid line runs from the top of the header band,
\* y = 10 + title_height, to total_height.
C10_CodeZOrder ==
    LET p == PaintsOf(events)
    IN  /\ \A i \in 1..(Len(p) - 1) : PaintKey(p[i]) <= PaintKey(p[i + 1])
        /\ \A i \in 1..Len(p) :
              p[i].kind = "fill" => \A j \in 1..(i - 1) : p[j].kind # "line"
        /\ \A i \in 1..Len(p) :
              /\ p[i].what = "vgrid" =>
                    /\ p[i].y0 = Y_START + title_height
                    /\ p[i].y1 = total_height
                    /\ p[i].x0 = p[i].col * col_width /\ p[i].x1 = p[i].x0
              /\ p[i].what = "vline" =>
                    /\ p[i].y1 - p[i].y0 = row_heights[p[i].row]
                    /\ p[i].x0 = p[i].col * col_width /\ p[i].x1 = p[i].x0

C10_Witness ==
    /\ pc = "done"
    /\ Truthy(title)
    /\ Len(columns) = 2
    /\ Len(rows) = 2
    /\ \E k \in EventIdx : events[k].what = "vline" /\ events[k].row = 2 /\ events[k].col = 2

\* two draw.text calls that paint consecutive wrapped lines of one cell
NextLineOf(k, m) ==
    /\ m = k + 2 /\ m <= Len(events)
    /\ events[k].kind = "text" /\ events[m].kind = "text"
    /\ events[k].what = events[m].what
    /\ events[k].what \in { "header", "cell" }
    /\ events[k].row = events[m].row /\ events[k].col = events[m].col

\* C11: consecutive wrapped lines of a body cell are painted exactly
\* line_height(DEFAULT_FONT) apart, whatever the header font's line height is,
\* and those of a header cell exactly line_height(HEADER_FONT) apart.
C11_LineSpacingPerFont ==
    \A k \in EventIdx :
        NextLineOf(k, k + 2) =>
            events[k + 2].y0 - events[k].y0 =
                IF events[k].what = "cell" THEN LineHeight(DEFAULT_FONT)
                ELSE LineHeight(HEADER_FONT)

\* C12: when a title is present, the title painted is exactly the wrapped lines
\* of the title block of the layout pass (title wrapped with the header font at
\* max_width), one draw.text per line.
C12_TitlePaintedFromWrappedLines ==
    (Truthy(title) /\ pc \notin { "measure_headers", "measure_rows", "measure_title",
                                  "create_canvas", "paint_title", "raised" }) =>
        LET painted == SelectSeq(events, LAMBDA e : e.kind = "text" /\ e.what = "title")
            lines   == measure_text(Val(title), HEADER_FONT, max_width).lines
        IN  /\ Len(painted) = Len(lines)
            /\ \A i \in 1..Len(lines) : painted[i].text = lines[i]

\* the words of a list of lines, line after line
RECURSIVE WordsOfLines(_)
WordsOfLines(ls) ==
    IF ls = << >> THEN << >> ELSE Split(Head(ls)) \o WordsOfLines(Tail(ls))

\* C13: the lines measure_text returns hold the whitespace-separated words of
\* the text, each whole and exactly once, in input order; a line of two or more
\* words satisfies text_width(line) + 2 * CELL_PADDING <= max_width, so only a
\* line that is a single word may exceed max_width.
C13_GreedyWordAtomicWrap ==
    ~IsNone(m_result) =>
        LET lines == Val(m_result).lines
        IN  /\ WordsOfLines(lines) = Split(m_text)
            /\ \A i \in 1..Len(lines) :
                  \/ text_width(lines[i], m_font) + 2 * CELL_PADDING <= m_width
                  \/ Len(Split(lines[i])) <= 1
            /\ \A i \in 1..Len(lines) :
                  Len(Split(lines[i])) = 1 => lines[i] = Split(lines[i])[1]

C13_Witness ==
    /\ ~IsNone(m_result)
    /\ Len(Val(m_result).lines) = 2
    /\ Len(Split(Val(m_result).lines[1])) = 2
    /\ Len(Split(m_text)) = 3

\* C14: on every path from /render or /parse_and_render to render_table_image
\* the Table shape has been established: every row handed to the renderer has
\* len(columns) cells.
C14_EndpointsPassShapedRows ==
    (endpoint # "" /\ pc \notin { "idle", "rejected" }) =>
        \A i \in 1..Len(rows) : Len(rows[i]) = Len(columns)

\* the horizontal grid lines painted so far: the separator and the row lines
HLines == { k \in EventIdx : events[k].what \in { "separator", "row_line" } }

\* C15: in a render that completes the paint cursor only moves downward and
\* ends at y = 10 + title_height + header_height + sum(row_heights); every
\* horizontal grid line (the separator and each row's bottom line) lies at a y
\* strictly below the canvas height, each one lower than the one before.
C15_CursorStaysOnCanvas ==
    /\ pc = "done" =>
          y = Y_START + title_height + header_height + SumSeq(row_heights)
    /\ \A k \in HLines :
          /\ events[k].y0 = events[k].y1
          /\ events[k].y0 < total_height
          /\ events[k].y0 <= y
          /\ \A m \in HLines : k < m => events[k].y0 < events[m].y0

C15_Witness ==
    /\ pc = "done"
    /\ Truthy(title)
    /\ Len(rows) = 2
    /\ Cardinality(HLines) = 3

====
